---- MODULE Spec2Model ----
(***************************************************************************)
(* Model of src/AzharSaeeddata.py: a Streamlit script that loads the sheet *)
(* DATA_BK of an uploaded .xlsb workbook, cleans it, filters it through    *)
(* the sidebar widgets and renders KPIs over the "quick" view.             *)
(*                                                                         *)
(* One user interaction = one action = one full run of the script (the     *)
(* operator Script), from line 33 to the line where the run stops.         *)
(***************************************************************************)
EXTENDS Integers, Sequences, FiniteSets, TLC

(***************************************************************************)
(* Cell values.  pyxlsb yields None, a float or a str for a cell; pandas   *)
(* treats None and NaN alike as "missing".                                 *)
(***************************************************************************)
NA == [k |-> "na", n |-> 0, s |-> ""]

Num(n) == [k |-> "num", n |-> n, s |-> ""]

Str(s) == [k |-> "str", n |-> 0, s |-> s]

isna(c) == c.k = "na"

(***************************************************************************)
(* Bounds of the model.                                                    *)
(***************************************************************************)
\* How many distinct workbooks the user switches between in one session.
MaxLibrary == 2

\* The user's partial month selections are January..k for k up to
\* MaxMonthPick (the full and the empty selection are always there).
MaxMonthPick == 1

(***************************************************************************)
(* The uploaded workbooks.  A workbook either cannot be opened, or holds   *)
(* named sheets; the rows of DATA_BK are sequences of cells, row 1 being   *)
(* the header.  `readable` is FALSE when iterating the rows raises.        *)
(***************************************************************************)
FullHeader == <<Str("DT"), Str("USDAmt"), Str("BranchName"), Str("CustomerName"), Str("TBM")>>

Workbook(opens, sheets, readable, rows) ==
    [opens |-> opens, sheets |-> sheets, readable |-> readable, rows |-> rows]

\* 45658 = 2025-01-01, 45659 = 2025-01-02, 45689 = 2025-02-01 (Excel serials).
Content(f) ==
    CASE f = "corrupt.xlsb"     -> Workbook(FALSE, {}, TRUE, <<>>)
      [] f = "no_sheet.xlsb"    -> Workbook(TRUE, {"Sheet1"}, TRUE, <<FullHeader>>)
      [] f = "zero_rows.xlsb"   -> Workbook(TRUE, {"DATA_BK"}, TRUE, <<>>)
      [] f = "bad_rows.xlsb"    -> Workbook(TRUE, {"Sheet1", "DATA_BK"}, FALSE, <<FullHeader>>)
      [] f = "header_only.xlsb" -> Workbook(TRUE, {"DATA_BK"}, TRUE, <<FullHeader>>)
      [] f = "no_dt.xlsb"       -> Workbook(TRUE, {"DATA_BK"}, TRUE,
            << <<Str("USDAmt"), Str("BranchName"), Str("CustomerName"), Str("TBM")>>,
               <<Num(100), Str("BranchA"), Str("ClientX"), Str("T1")>> >>)
      [] f = "no_tbm.xlsb"      -> Workbook(TRUE, {"DATA_BK"}, TRUE,
            << <<Str("DT"), Str("USDAmt"), Str("BranchName"), Str("CustomerName")>>,
               <<Num(45658), Num(100), Str("BranchA"), Str("ClientX")>>,
               <<Num(45689), Num(200), Str("BranchB"), Str("ClientY")>> >>)
      [] f = "all_invalid.xlsb" -> Workbook(TRUE, {"DATA_BK"}, TRUE,
            << FullHeader,
               <<Num(45658), Str("n/a"), Str("BranchA"), Str("ClientX"), Str("T1")>>,
               <<Str("someday"), Num(100), Str("BranchA"), Str("ClientX"), Str("T1")>>,
               <<Num(99999999), Num(100), Str("BranchB"), Str("ClientY"), Str("T2")>>,
               <<Num(45658)>> >>)
      [] f = "small.xlsb"       -> Workbook(TRUE, {"DATA_BK"}, TRUE,
            << FullHeader,
               <<Num(45658), Num(100), Str("BranchA"), Str("ClientX"), Str("T1")>> >>)
      [] f = "sales.xlsb"       -> Workbook(TRUE, {"DATA_BK", "Notes"}, TRUE,
            << FullHeader,
               <<Num(45658), Num(100), Str("BranchA"), Str("ClientX"), Str("T1")>>,
               <<Num(45689), Str("200"), Str("BranchB"), Str("ClientX"), Str("T2")>>,
               <<Num(45659), Num(50), NA, Str("ClientX"), Str("T1")>>,
               <<Num(45658), Num(70), Str("BranchA")>>,
               <<Num(45689), NA, Str("BranchB"), Str("ClientX"), Str("T2")>> >>)

Files == {"corrupt.xlsb", "no_sheet.xlsb", "zero_rows.xlsb", "bad_rows.xlsb",
          "header_only.xlsb", "no_dt.xlsb", "no_tbm.xlsb", "all_invalid.xlsb",
          "small.xlsb", "sales.xlsb"}

\* The workbooks whose sessions stay small enough to be combined in one session.
SmallFiles == {"corrupt.xlsb", "header_only.xlsb", "no_tbm.xlsb"}

\* A session's workbooks: any single workbook, or up to MaxLibrary small ones.
Libraries ==
    {{f} : f \in Files} \cup
    {L \in SUBSET SmallFiles : Cardinality(L) >= 2 /\ Cardinality(L) <= MaxLibrary}

None == "None"

(***************************************************************************)
(* DataFrames: a set of column labels and a sequence of rows, each row a   *)
(* function from the labels (strings) to cells.                            *)
(***************************************************************************)
EmptyDataFrame == [columns |-> {}, rows |-> <<>>]

empty(d) == d.columns = {} \/ Len(d.rows) = 0

\* The width of pd.DataFrame(rows): the longest row's length.
MaxLen(rows) ==
    IF Len(rows) = 0 THEN 0
    ELSE CHOOSE n \in {Len(rows[i]) : i \in 1..Len(rows)} :
             \A i \in 1..Len(rows) : Len(rows[i]) <= n

\* pd.DataFrame(rows) pads short rows with None.
CellAt(row, i) == IF i <= Len(row) THEN row[i] ELSE NA

\* df.columns = df.iloc[0]: the column a label names (the last one, if the
\* header repeats it).
PosOf(header, c, width) ==
    CHOOSE i \in 1..width :
        /\ CellAt(header, i).s = c
        /\ \A j \in 1..width : CellAt(header, j).s = c => j <= i

\* pd.DataFrame(rows) with row 0 promoted to the header and dropped from the
\* data.  A header cell that is not text names no column the script uses.
Table(rows, width) ==
    [columns |-> {CellAt(rows[1], i).s : i \in 1..width},
     rows |-> [k \in 1..(Len(rows) - 1) |->
                 [c \in {CellAt(rows[1], i).s : i \in 1..width} |->
                     CellAt(rows[k + 1], PosOf(rows[1], c, width))]]]

Raised(exc) == [df |-> EmptyDataFrame, exc |-> exc]

\* Lines 17-24, the try block: the table, or the exception raised.
ReadSheet(wb) ==
    IF ~wb.opens THEN Raised("BadZipFile: File is not a zip file")
    ELSE IF "DATA_BK" \notin wb.sheets THEN Raised("ValueError: sheet DATA_BK not found")
    ELSE IF ~wb.readable THEN Raised("error: unpack requires a buffer")
    ELSE IF Len(wb.rows) = 0
         THEN Raised("IndexError: single positional indexer is out-of-bounds")
    ELSE [df |-> Table(wb.rows, MaxLen(wb.rows)), exc |-> ""]

\* A handler that catches only the failure to open the workbook and lets
\* every other exception leave load_xlsb.
Catch_OnlyOpenErrors(o) ==
    IF o.exc = "" THEN [df |-> o.df, error |-> "", raised |-> ""]
    ELSE IF o.exc = "BadZipFile: File is not a zip file"
         THEN [df |-> EmptyDataFrame, error |-> "Error loading XLSB file", raised |-> ""]
    ELSE [df |-> EmptyDataFrame, error |-> "", raised |-> o.exc]

\* Lines 25-27, except Exception: every exception becomes an st.error and an
\* empty table; nothing is re-raised.
Catch(o) ==
    IF o.exc = "" THEN [df |-> o.df, error |-> "", raised |-> ""]
    ELSE [df |-> EmptyDataFrame, error |-> "Error loading XLSB file", raised |-> ""]

\* The body of load_xlsb.
load_xlsb_body(file) == Catch(ReadSheet(Content(file)))

(***************************************************************************)
(* Column operations of pandas used by the script.                         *)
(***************************************************************************)
has(d, name) == name \in d.columns

\* df[name] = values: adds or overwrites one column (one value per row).
SetColumn(d, name, values) ==
    [columns |-> d.columns \cup {name},
     rows |-> [i \in 1..Len(d.rows) |->
                 [c \in d.columns \cup {name} |->
                     IF c = name THEN values[i] ELSE d.rows[i][c]]]]

\* Text that float() accepts, with its value.
NumericText == [s \in {"200"} |-> 200]

\* pd.to_numeric(..., errors="coerce"): numbers stay, numeric text is parsed,
\* anything else becomes NaN.
to_numeric(c) ==
    CASE c.k = "num" -> c
      [] c.k = "str" -> IF c.s \in DOMAIN NumericText THEN Num(NumericText[c.s]) ELSE NA
      [] OTHER       -> NA

\* Days from 1899-12-30 to 1970-01-01.
ExcelEpoch == 25569

\* pd.to_datetime(..., origin="1899-12-30", unit="D", errors="coerce"): the
\* date as days since 1970-01-01; NaT outside the range of a 64-bit nanosecond
\* Timestamp (+-106751 days).
to_datetime(c) ==
    IF isna(c) THEN NA
    ELSE IF c.n - ExcelEpoch < -106751 \/ c.n - ExcelEpoch > 106751 THEN NA
    ELSE Num(c.n - ExcelEpoch)

\* Calendar year and month of a day number (days since 1970-01-01).
CivilYM(yoe, era, mp) ==
    [year  |-> yoe + era * 400 + (IF mp < 10 THEN 0 ELSE 1),
     month |-> IF mp < 10 THEN mp + 3 ELSE mp - 9]

CivilDoy(doe, yoe, era) ==
    CivilYM(yoe, era, (5 * (doe - (365 * yoe + (yoe \div 4) - (yoe \div 100))) + 2) \div 153)

CivilDoe(doe, era) ==
    CivilDoy(doe, (doe - (doe \div 1460) + (doe \div 36524) - (doe \div 146096)) \div 365, era)

Civil(days) ==
    CivilDoe((days + 719468) % 146097, (days + 719468) \div 146097)

month_order ==
    <<"January", "February", "March", "April", "May", "June",
      "July", "August", "September", "October", "November", "December">>

Months == {Str(month_order[i]) : i \in 1..Len(month_order)}

\* Series.dropna().unique() of a column, as a set (the script sorts it).
unique(rows, name) == {rows[i][name] : i \in 1..Len(rows)} \ {NA}

\* A membership test that reads an empty selection as "no filter".
isin_EmptyMeansAll(c, values) == values = {} \/ (~isna(c) /\ c \in values)

\* Series.isin(values): a missing value is in no selection.
isin(c, values) == ~isna(c) /\ c \in values

\* Series.sum() of USDAmt.
SumAmt(rows) ==
    LET acc[i \in 0..Len(rows)] == IF i = 0 THEN 0 ELSE acc[i - 1] + rows[i]["USDAmt"].n
    IN  acc[Len(rows)]

\* The rows of one group.
Group(rows, name, g) == SelectSeq(rows, LAMBDA r : r[name] = g)

\* groupby(name)["USDAmt"].agg(sum, count) over the given keys.
GroupBy(rows, name, keys) ==
    [g \in keys |-> [Total_Sales  |-> SumAmt(Group(rows, name, g)),
                     Transactions |-> Len(Group(rows, name, g))]]

\* sort_values("Date", ascending=False): row i goes after the rows with a
\* later date and after the earlier rows with the same date.
DateRank(rows, i) ==
    1 + Cardinality({j \in 1..Len(rows) : rows[j]["Date"].n > rows[i]["Date"].n})
      + Cardinality({j \in 1..(i - 1) : rows[j]["Date"].n = rows[i]["Date"].n})

SortByDateDesc(rows) ==
    [p \in 1..Len(rows) |-> rows[CHOOSE i \in 1..Len(rows) : DateRank(rows, i) = p]]

(***************************************************************************)
(* One run of the script.  The run is a record threaded through the        *)
(* script's sections in source order; a section does nothing once the run  *)
(* has halted (st.stop() or an uncaught exception).                        *)
(*   prev  : the widget state the browser session holds from the last run  *)
(*   event : the one widget the user changed to trigger this run           *)
(***************************************************************************)
AllClients == Str("All Clients")

AllTBMs == Str("All TBMs")

NoKpi ==
    [computed |-> FALSE, total_sales |-> 0, total_transactions |-> 0,
     avg_sale |-> [num |-> 0, den |-> 1],
     monthly_sales |-> <<>>, branch_sales |-> <<>>, top_clients |-> {},
     top_b |-> NA, top_val |-> 0,
     client_summary |-> <<>>, branch_summary |-> <<>>, raw_data |-> <<>>]

Start(file, cache, decodes, prev, event) ==
    [file |-> file, cache |-> cache, decodes |-> decodes, prev |-> prev, event |-> event,
     halt |-> "running", raised |-> "", messages |-> {}, stages |-> {},
     df |-> EmptyDataFrame,
     branch_options |-> {}, all_branches_selected |-> TRUE, selected_branch |-> {},
     df_branch_filtered |-> <<>>,
     all_months_selected |-> TRUE, selected_month |-> {},
     client_options |-> {}, all_clients_selected |-> TRUE, selected_client |-> {},
     tbm_options |-> {}, all_tbms_selected |-> TRUE, selected_tbm |-> {},
     filtered_df_dashboard |-> <<>>,
     all_clients_full |-> {}, selected_quick_client |-> AllClients,
     all_tbms_full |-> {}, selected_quick_tbm |-> AllTBMs,
     filtered_df_quick |-> <<>>, latest_year |-> 0, kpi |-> NoKpi]

Stop(s, how, msg) ==
    [s EXCEPT !.halt = how, !.messages = @ \cup {msg}]

Raise(s, exc) == [s EXCEPT !.halt = "exception", !.raised = exc]

Done(s, stage) == [s EXCEPT !.stages = @ \cup {stage}]

(***************************************************************************)
(* Streamlit widgets.  A widget keeps the user's value from run to run as  *)
(* long as it was drawn in the last run with the same options and default; *)
(* otherwise it is a new widget and shows its default.                     *)
(***************************************************************************)
checkbox(s, stage, widget, old) ==
    IF stage \notin s.prev.stages THEN TRUE
    ELSE IF s.event.widget = widget THEN s.event.flag
    ELSE old

\* default=options if the "select all" box is ticked, else None (nothing).
DefaultOf(all_selected, options) == IF all_selected THEN options ELSE {}

multiselect(s, stage, widget, options, default, oldOptions, oldDefault, old) ==
    IF stage \notin s.prev.stages \/ oldOptions # options \/ oldDefault # default
    THEN default
    ELSE IF s.event.widget = widget THEN s.event.picks
    ELSE old

selectbox(s, stage, widget, first, options, oldOptions, old) ==
    IF stage \notin s.prev.stages \/ oldOptions # options THEN first
    ELSE IF s.event.widget = widget THEN s.event.pick
    ELSE old

(***************************************************************************)
(* The sections of the script.                                             *)
(***************************************************************************)
\* What load_xlsb hands back to the script: the table and the st.error shown,
\* or the exception that left it.
Loaded(s, got) ==
    IF got.raised # "" THEN Raise(s, got.raised)
    ELSE [s EXCEPT !.df = got.df,
                   !.messages = IF got.error = "" THEN @ ELSE @ \cup {got.error}]

\* The first call for a file: the body runs, and what it returns is stored.
Store(s, got) ==
    Loaded([s EXCEPT !.cache = IF got.raised # "" THEN @ ELSE (s.file :> got) @@ @,
                     !.decodes = [@ EXCEPT ![s.file] = @ + 1]], got)

\* load_xlsb without @st.cache_data: the body runs on every call.
load_xlsb_Uncached(s) == Store(s, load_xlsb_body(s.file))

\* @st.cache_data: the body runs once per file; later calls return the stored
\* result and replay the st.error it made.
load_xlsb(s) ==
    IF s.file \in DOMAIN s.cache THEN Loaded(s, s.cache[s.file])
    ELSE Store(s, load_xlsb_body(s.file))

FileUploader(s) ==
    IF s.halt # "running" THEN s
    ELSE IF s.file = None
         THEN Stop(s, "stop_no_file", "Please upload an XLSB file to continue.")
    ELSE Done(s, "upload")

\* Lines 44-46.
StopIfEmpty(l) ==
    IF l.halt # "running" THEN l
    ELSE IF empty(l.df) THEN Stop(l, "stop_no_data", "No data loaded from XLSB.")
    ELSE Done(l, "load")

LoadData(s) ==
    IF s.halt # "running" THEN s
    ELSE StopIfEmpty(load_xlsb(s))

\* df[name] = pd.to_numeric(df[name], errors="coerce")
Numeric(d, name) ==
    SetColumn(d, name, [i \in 1..Len(d.rows) |-> to_numeric(d.rows[i][name])])

Coerce(s) ==
    IF s.halt # "running" THEN s
    ELSE IF ~has(s.df, "DT") THEN Raise(s, "KeyError: 'DT'")
    ELSE IF ~has(s.df, "USDAmt")
         THEN Raise([s EXCEPT !.df = Numeric(s.df, "DT")], "KeyError: 'USDAmt'")
    ELSE Done([s EXCEPT !.df = Numeric(Numeric(s.df, "DT"), "USDAmt")], "coerce")

ParseDates(s) ==
    IF s.halt # "running" THEN s
    ELSE IF has(s.df, "DT")
         THEN Done([s EXCEPT !.df = SetColumn(s.df, "Date",
                       [i \in 1..Len(s.df.rows) |-> to_datetime(s.df.rows[i]["DT"])])],
                   "dates")
    ELSE Stop(s, "stop_dt_missing", "DT column not found in XLSB sheet.")

RemoveInvalidRows(s) ==
    IF s.halt # "running" THEN s
    ELSE Done([s EXCEPT !.df.rows = SelectSeq(s.df.rows,
                  LAMBDA r : ~isna(r["Date"]) /\ ~isna(r["USDAmt"]))],
              "dropna")

ExtractYearMonth(s) ==
    IF s.halt # "running" THEN s
    ELSE Done([s EXCEPT !.df =
                  SetColumn(
                      SetColumn(s.df, "Year",
                          [i \in 1..Len(s.df.rows) |-> Num(Civil(s.df.rows[i]["Date"].n).year)]),
                      "Month",
                      [i \in 1..Len(s.df.rows) |->
                          Str(month_order[Civil(s.df.rows[i]["Date"].n).month])])],
              "year_month")

\* Line 88: the rows of the selected branches.
BranchMask(r, selected_branch) == isin(r["BranchName"], selected_branch)

BranchFilter(s) ==
    IF s.halt # "running" THEN s
    ELSE IF ~has(s.df, "BranchName") THEN Raise(s, "KeyError: 'BranchName'")
    ELSE LET opts == unique(s.df.rows, "BranchName")
             all  == checkbox(s, "branch_filter", "all_branches", s.prev.all_branches_selected)
             sel  == multiselect(s, "branch_filter", "branch", opts, DefaultOf(all, opts),
                        s.prev.branch_options,
                        DefaultOf(s.prev.all_branches_selected, s.prev.branch_options),
                        s.prev.selected_branch)
         IN  Done([s EXCEPT !.branch_options = opts,
                            !.all_branches_selected = all,
                            !.selected_branch = sel,
                            !.df_branch_filtered =
                                SelectSeq(s.df.rows, LAMBDA r : BranchMask(r, sel))],
                  "branch_filter")

MonthFilter(s) ==
    IF s.halt # "running" THEN s
    ELSE LET all == checkbox(s, "month_filter", "all_months", s.prev.all_months_selected)
             sel == multiselect(s, "month_filter", "month", Months, DefaultOf(all, Months),
                        Months, DefaultOf(s.prev.all_months_selected, Months),
                        s.prev.selected_month)
         IN  Done([s EXCEPT !.all_months_selected = all, !.selected_month = sel],
                  "month_filter")

\* Line 99: the clients offered by the dashboard's Client widget.
ClientOptions(s) == unique(s.df_branch_filtered, "CustomerName")

ClientFilter(s) ==
    IF s.halt # "running" THEN s
    ELSE IF ~has(s.df, "CustomerName") THEN Raise(s, "KeyError: 'CustomerName'")
    ELSE LET opts == ClientOptions(s)
             all  == checkbox(s, "client_filter", "all_clients", s.prev.all_clients_selected)
             sel  == multiselect(s, "client_filter", "client", opts, DefaultOf(all, opts),
                        s.prev.client_options,
                        DefaultOf(s.prev.all_clients_selected, s.prev.client_options),
                        s.prev.selected_client)
         IN  Done([s EXCEPT !.client_options = opts,
                            !.all_clients_selected = all,
                            !.selected_client = sel],
                  "client_filter")

\* Line 109: the TBMs offered by the dashboard's TBM widget.
TbmOptions(s) == unique(s.df.rows, "TBM")

TbmFilter(s) ==
    IF s.halt # "running" THEN s
    ELSE IF has(s.df, "TBM")
         THEN LET opts == TbmOptions(s)
                  all  == checkbox(s, "tbm_filter", "all_tbms", s.prev.all_tbms_selected)
                  sel  == multiselect(s, "tbm_filter", "tbm", opts, DefaultOf(all, opts),
                             s.prev.tbm_options,
                             DefaultOf(s.prev.all_tbms_selected, s.prev.tbm_options),
                             s.prev.selected_tbm)
              IN  Done([s EXCEPT !.tbm_options = opts,
                                 !.all_tbms_selected = all,
                                 !.selected_tbm = sel],
                       "tbm_filter")
    \* df.get("TBM", pd.Series()).unique(): no values at all.
    ELSE Done([s EXCEPT !.selected_tbm = {}], "tbm_fallback")

\* Lines 121-123: the row mask of the dashboard view.
DashboardMask(r, selected_client, selected_month, selected_tbm) ==
    /\ isin(r["CustomerName"], selected_client)
    /\ isin(r["Month"], selected_month)
    /\ isin(r["TBM"], selected_tbm)

DashboardView(s) ==
    IF s.halt # "running" THEN s
    \* df_branch_filtered["TBM"] on a table without the column.
    ELSE IF ~has(s.df, "TBM") THEN Raise(s, "KeyError: 'TBM'")
    ELSE Done([s EXCEPT !.filtered_df_dashboard =
                  SelectSeq(s.df_branch_filtered,
                      LAMBDA r : DashboardMask(r, s.selected_client, s.selected_month,
                                               s.selected_tbm))],
              "dashboard_view")

QuickClientView(s) ==
    IF s.halt # "running" THEN s
    ELSE LET full == unique(s.df.rows, "CustomerName")
         IN  Done([s EXCEPT !.all_clients_full = full,
                            !.selected_quick_client =
                                selectbox(s, "quick_client", "quick_client", AllClients,
                                    full, s.prev.all_clients_full,
                                    s.prev.selected_quick_client)],
                  "quick_client")

QuickTbmView(s) ==
    IF s.halt # "running" THEN s
    ELSE IF has(s.df, "TBM")
         THEN LET full == unique(s.df.rows, "TBM")
              IN  Done([s EXCEPT !.all_tbms_full = full,
                                 !.selected_quick_tbm =
                                     selectbox(s, "quick_tbm", "quick_tbm", AllTBMs,
                                         full, s.prev.all_tbms_full,
                                         s.prev.selected_quick_tbm)],
                       "quick_tbm")
    ELSE Done([s EXCEPT !.selected_quick_tbm = AllTBMs], "quick_tbm_fallback")

\* Lines 161-162: the branch and month mask of the quick view.
QuickMask(r, selected_branch, selected_month) ==
    /\ isin(r["BranchName"], selected_branch)
    /\ isin(r["Month"], selected_month)

\* A quick view cut from the dashboard view instead of the cleaned table.
QuickView_FromDashboard(s) ==
    LET q0 == s.filtered_df_dashboard
        q1 == IF s.selected_quick_client # AllClients
              THEN SelectSeq(q0, LAMBDA r : r["CustomerName"] = s.selected_quick_client)
              ELSE q0
        q2 == IF s.selected_quick_tbm # AllTBMs
              THEN SelectSeq(q1, LAMBDA r : r["TBM"] = s.selected_quick_tbm)
              ELSE q1
    IN  SelectSeq(q2, LAMBDA r : QuickMask(r, s.selected_branch, s.selected_month))

\* Lines 151-163: the quick view.
QuickView(s) ==
    LET q0 == s.df.rows
        q1 == IF s.selected_quick_client # AllClients
              THEN SelectSeq(q0, LAMBDA r : r["CustomerName"] = s.selected_quick_client)
              ELSE q0
        q2 == IF s.selected_quick_tbm # AllTBMs
              THEN SelectSeq(q1, LAMBDA r : r["TBM"] = s.selected_quick_tbm)
              ELSE q1
    IN  SelectSeq(q2, LAMBDA r : QuickMask(r, s.selected_branch, s.selected_month))

QuickFilters(s) ==
    IF s.halt # "running" THEN s
    ELSE Done([s EXCEPT !.filtered_df_quick = QuickView(s)], "quick_view")

\* Lines 168-170: int(df["Year"].max()); the max of no rows is NaN.
Title(s) ==
    IF s.halt # "running" THEN s
    ELSE IF Len(s.df.rows) = 0
         THEN Raise(s, "ValueError: cannot convert float NaN to integer")
    ELSE LET years == {s.df.rows[i]["Year"].n : i \in 1..Len(s.df.rows)}
         IN  Done([s EXCEPT !.latest_year = CHOOSE y \in years : \A z \in years : z <= y],
                  "title")

\* Lines 176-231: everything drawn from a non-empty quick view.
Aggregates(s) ==
    LET q        == s.filtered_df_quick
        total    == SumAmt(q)
        count    == Len(q)
        branches == unique(q, "BranchName")
        clients  == unique(q, "CustomerName")
        byBranch == GroupBy(q, "BranchName", branches)
        byClient == GroupBy(q, "CustomerName", clients)
        byMonth  == GroupBy(q, "Month", Months)
        top_val  == CHOOSE v \in {byBranch[b].Total_Sales : b \in branches} :
                        \A b \in branches : byBranch[b].Total_Sales <= v
        single   == s.selected_quick_client # AllClients
    IN  [computed |-> TRUE,
         total_sales |-> total,
         total_transactions |-> count,
         avg_sale |-> IF count > 0 THEN [num |-> total, den |-> count]
                      ELSE [num |-> 0, den |-> 1],
         monthly_sales |-> [m \in Months |-> byMonth[m].Total_Sales],
         branch_sales |-> [b \in branches |-> byBranch[b].Total_Sales],
         \* head(10) of the clients by descending total
         top_clients |-> {<<c, byClient[c].Total_Sales>> : c \in
                            {c \in clients : Cardinality({d \in clients :
                                byClient[d].Total_Sales > byClient[c].Total_Sales}) < 10}},
         \* idxmax: a branch with the largest total (ties: the first in index order)
         top_b |-> CHOOSE b \in branches : byBranch[b].Total_Sales = top_val,
         top_val |-> top_val,
         client_summary |-> IF single THEN byMonth ELSE <<>>,
         branch_summary |-> IF single THEN byBranch ELSE <<>>,
         raw_data |-> SortByDateDesc(q)]

Dashboard(s) ==
    IF s.halt # "running" THEN s
    ELSE IF Len(s.filtered_df_quick) = 0
         THEN Stop(Done(s, "empty_state"), "done",
                   "No data available for the selected filters or quick view.")
    ELSE [Done(s, "aggregates") EXCEPT !.halt = "done", !.kpi = Aggregates(s)]

\* The script, top to bottom.  Each section's result is bound as a value
\* before the next section reads it.
Script(file, cache, decodes, prev, event) ==
    CHOOSE r \in
      {Dashboard(s15) : s15 \in
      {Title(s14) : s14 \in
      {QuickFilters(s13) : s13 \in
      {QuickTbmView(s12) : s12 \in
      {QuickClientView(s11) : s11 \in
      {DashboardView(s10) : s10 \in
      {TbmFilter(s9) : s9 \in
      {ClientFilter(s8) : s8 \in
      {MonthFilter(s7) : s7 \in
      {BranchFilter(s6) : s6 \in
      {ExtractYearMonth(s5) : s5 \in
      {RemoveInvalidRows(s4) : s4 \in
      {ParseDates(s3) : s3 \in
      {Coerce(s2) : s2 \in
      {LoadData(s1) : s1 \in
      {FileUploader(s0) : s0 \in
      {Start(file, cache, decodes, prev, event)}}}}}}}}}}}}}}}}} : TRUE

(***************************************************************************)
(* State: the session (uploaded file, st.cache_data's store, the widgets)  *)
(* and what the last run of the script computed and showed.                *)
(***************************************************************************)
VARIABLES library, xlsb_file, cache, decodes, halt, raised, messages, stages, df,
          branch_options, all_branches_selected, selected_branch, df_branch_filtered,
          all_months_selected, selected_month,
          client_options, all_clients_selected, selected_client,
          tbm_options, all_tbms_selected, selected_tbm, filtered_df_dashboard,
          all_clients_full, selected_quick_client, all_tbms_full, selected_quick_tbm,
          filtered_df_quick, latest_year, kpi

vars == <<library, xlsb_file, cache, decodes, halt, raised, messages, stages, df,
          branch_options, all_branches_selected, selected_branch, df_branch_filtered,
          all_months_selected, selected_month,
          client_options, all_clients_selected, selected_client,
          tbm_options, all_tbms_selected, selected_tbm, filtered_df_dashboard,
          all_clients_full, selected_quick_client, all_tbms_full, selected_quick_tbm,
          filtered_df_quick, latest_year, kpi>>

\* What the last run left: its outcome.
Shows(r) ==
    /\ cache = r.cache /\ decodes = r.decodes
    /\ halt = r.halt /\ raised = r.raised /\ messages = r.messages /\ stages = r.stages
    /\ df = r.df
    /\ branch_options = r.branch_options
    /\ all_branches_selected = r.all_branches_selected
    /\ selected_branch = r.selected_branch
    /\ df_branch_filtered = r.df_branch_filtered
    /\ all_months_selected = r.all_months_selected
    /\ selected_month = r.selected_month
    /\ client_options = r.client_options
    /\ all_clients_selected = r.all_clients_selected
    /\ selected_client = r.selected_client
    /\ tbm_options = r.tbm_options
    /\ all_tbms_selected = r.all_tbms_selected
    /\ selected_tbm = r.selected_tbm
    /\ filtered_df_dashboard = r.filtered_df_dashboard
    /\ all_clients_full = r.all_clients_full
    /\ selected_quick_client = r.selected_quick_client
    /\ all_tbms_full = r.all_tbms_full
    /\ selected_quick_tbm = r.selected_quick_tbm
    /\ filtered_df_quick = r.filtered_df_quick
    /\ latest_year = r.latest_year
    /\ kpi = r.kpi

\* The widget state the session carries into the next run.
Session ==
    [stages |-> stages,
     branch_options |-> branch_options,
     all_branches_selected |-> all_branches_selected,
     selected_branch |-> selected_branch,
     all_months_selected |-> all_months_selected,
     selected_month |-> selected_month,
     client_options |-> client_options,
     all_clients_selected |-> all_clients_selected,
     selected_client |-> selected_client,
     tbm_options |-> tbm_options,
     all_tbms_selected |-> all_tbms_selected,
     selected_tbm |-> selected_tbm,
     all_clients_full |-> all_clients_full,
     selected_quick_client |-> selected_quick_client,
     all_tbms_full |-> all_tbms_full,
     selected_quick_tbm |-> selected_quick_tbm]

Event(widget, flag, picks, pick) ==
    [widget |-> widget, flag |-> flag, picks |-> picks, pick |-> pick]

\* A partial month selection the user makes.
MonthPicks ==
    {{Str(month_order[i]) : i \in 1..k} : k \in 0..MaxMonthPick} \cup {Months}

\* The first run of a session: nothing uploaded, nothing cached.
Init ==
    /\ library \in Libraries
    /\ xlsb_file = None
    /\ \E r \in {Script(None, <<>>, [f \in Files |-> 0],
                        [stages |-> {}], Event("", FALSE, {}, NA))} : Shows(r)

\* One interaction: the event reaches the session and the script runs again.
Run(file, event) ==
    \E r \in {Script(file, cache, decodes, Session, event)} :
        /\ xlsb_file' = file
        /\ cache' = r.cache
        /\ decodes' = r.decodes
        /\ halt' = r.halt
        /\ raised' = r.raised
        /\ messages' = r.messages
        /\ stages' = r.stages
        /\ df' = r.df
        /\ branch_options' = r.branch_options
        /\ all_branches_selected' = r.all_branches_selected
        /\ selected_branch' = r.selected_branch
        /\ df_branch_filtered' = r.df_branch_filtered
        /\ all_months_selected' = r.all_months_selected
        /\ selected_month' = r.selected_month
        /\ client_options' = r.client_options
        /\ all_clients_selected' = r.all_clients_selected
        /\ selected_client' = r.selected_client
        /\ tbm_options' = r.tbm_options
        /\ all_tbms_selected' = r.all_tbms_selected
        /\ selected_tbm' = r.selected_tbm
        /\ filtered_df_dashboard' = r.filtered_df_dashboard
        /\ all_clients_full' = r.all_clients_full
        /\ selected_quick_client' = r.selected_quick_client
        /\ all_tbms_full' = r.all_tbms_full
        /\ selected_quick_tbm' = r.selected_quick_tbm
        /\ filtered_df_quick' = r.filtered_df_quick
        /\ latest_year' = r.latest_year
        /\ kpi' = r.kpi
        /\ UNCHANGED library

Upload(f) ==
    /\ f \in library
    /\ Run(f, Event("file_uploader", FALSE, {}, NA))

RemoveFile ==
    /\ xlsb_file # None
    /\ Run(None, Event("file_uploader", FALSE, {}, NA))

ToggleAllBranches ==
    /\ "branch_filter" \in stages
    /\ Run(xlsb_file, Event("all_branches", ~all_branches_selected, {}, NA))

SelectBranch(S) ==
    /\ "branch_filter" \in stages
    /\ S \subseteq branch_options /\ S # selected_branch
    /\ Run(xlsb_file, Event("branch", FALSE, S, NA))

ToggleAllMonths ==
    /\ "month_filter" \in stages
    /\ Run(xlsb_file, Event("all_months", ~all_months_selected, {}, NA))

SelectMonth(S) ==
    /\ "month_filter" \in stages
    /\ S \in MonthPicks /\ S # selected_month
    /\ Run(xlsb_file, Event("month", FALSE, S, NA))

ToggleAllClients ==
    /\ "client_filter" \in stages
    /\ Run(xlsb_file, Event("all_clients", ~all_clients_selected, {}, NA))

SelectClient(S) ==
    /\ "client_filter" \in stages
    /\ S \subseteq client_options /\ S # selected_client
    /\ Run(xlsb_file, Event("client", FALSE, S, NA))

ToggleAllTbms ==
    /\ "tbm_filter" \in stages
    /\ Run(xlsb_file, Event("all_tbms", ~all_tbms_selected, {}, NA))

SelectTbm(S) ==
    /\ "tbm_filter" \in stages
    /\ S \subseteq tbm_options /\ S # selected_tbm
    /\ Run(xlsb_file, Event("tbm", FALSE, S, NA))

SelectQuickClient(c) ==
    /\ "quick_client" \in stages
    /\ c \in {AllClients} \cup all_clients_full /\ c # selected_quick_client
    /\ Run(xlsb_file, Event("quick_client", FALSE, {}, c))

SelectQuickTbm(c) ==
    /\ "quick_tbm" \in stages
    /\ c \in {AllTBMs} \cup all_tbms_full /\ c # selected_quick_tbm
    /\ Run(xlsb_file, Event("quick_tbm", FALSE, {}, c))

Next ==
    \/ \E f \in Files : Upload(f)
    \/ RemoveFile
    \/ ToggleAllBranches
    \/ \E S \in SUBSET branch_options : SelectBranch(S)
    \/ ToggleAllMonths
    \/ \E S \in MonthPicks : SelectMonth(S)
    \/ ToggleAllClients
    \/ \E S \in SUBSET client_options : SelectClient(S)
    \/ ToggleAllTbms
    \/ \E S \in SUBSET tbm_options : SelectTbm(S)
    \/ \E c \in {AllClients} \cup all_clients_full : SelectQuickClient(c)
    \/ \E c \in {AllTBMs} \cup all_tbms_full : SelectQuickTbm(c)

Spec == Init /\ [][Next]_vars

(***************************************************************************)
(* Properties.                                                             *)
(***************************************************************************)
LaterStages ==
    {"coerce", "dates", "dropna", "year_month", "branch_filter", "month_filter",
     "client_filter", "tbm_filter", "tbm_fallback", "dashboard_view", "quick_client",
     "quick_tbm", "quick_tbm_fallback", "quick_view", "title", "empty_state", "aggregates"}

NothingComputed ==
    /\ stages \cap (LaterStages \cup {"load"}) = {}
    /\ filtered_df_dashboard = <<>> /\ filtered_df_quick = <<>>
    /\ kpi = NoKpi

\* The uploaded workbook cannot be decoded: it does not open, has no sheet
\* DATA_BK, its rows cannot be read, or the sheet has no row to promote.
DecodeFails(f) ==
    \/ ~Content(f).opens
    \/ "DATA_BK" \notin Content(f).sheets
    \/ ~Content(f).readable
    \/ Len(Content(f).rows) = 0

\* C1: whenever the cleaned table has no TBM column, the run completes and the
\* dashboard view is the rows whose BranchName, CustomerName and Month are in
\* the selections, with no filtering on TBM.
C1_NoTbmColumnBypassesFilter ==
    ("year_month" \in stages /\ ~has(df, "TBM")) =>
        /\ halt = "done" /\ raised = ""
        /\ filtered_df_dashboard =
              SelectSeq(df.rows, LAMBDA r :
                  /\ isin(r["BranchName"], selected_branch)
                  /\ isin(r["CustomerName"], selected_client)
                  /\ isin(r["Month"], selected_month))

\* C2: whenever a non-empty decoded table has no DT column, the run ends at the
\* stop with the message 'DT column not found', raises nothing and runs no
\* later stage.
C2_MissingDtStopsWithError ==
    ("load" \in stages /\ ~has(df, "DT")) =>
        /\ halt = "stop_dt_missing" /\ raised = ""
        /\ "DT column not found in XLSB sheet." \in messages
        /\ stages \cap (LaterStages \ {"coerce"}) = {}
        /\ kpi = NoKpi

\* C3: whenever the uploaded workbook cannot be decoded, load_xlsb has returned
\* the empty table and shown its error, no exception was raised, and the run
\* stopped at 'No data loaded' with no cleaning, filtering or aggregation done.
C3_DecodeFailureStopsAtNoData ==
    (xlsb_file # None /\ DecodeFails(xlsb_file)) =>
        /\ df = EmptyDataFrame
        /\ "Error loading XLSB file" \in messages
        /\ raised = ""
        /\ halt = "stop_no_data"
        /\ "No data loaded from XLSB." \in messages
        /\ NothingComputed

\* A run on a workbook whose sheet DATA_BK exists but has no rows at all.
C3_Witness ==
    /\ xlsb_file # None
    /\ Content(xlsb_file).opens /\ "DATA_BK" \in Content(xlsb_file).sheets
    /\ Content(xlsb_file).readable /\ Len(Content(xlsb_file).rows) = 0
    /\ decodes[xlsb_file] = 1
    /\ halt = "stop_no_data"

\* C4: with a TBM column, when the Month, Client and TBM "select all" boxes are
\* ticked and the selections are their defaults, the dashboard view is exactly
\* the branch-filtered table.
C4_SelectAllKeepsBranchFiltered ==
    ( /\ "dashboard_view" \in stages
      /\ all_months_selected /\ selected_month = Months
      /\ all_clients_selected /\ selected_client = client_options
      /\ all_tbms_selected /\ selected_tbm = tbm_options ) =>
        filtered_df_dashboard = df_branch_filtered

\* C5: with quick client 'All Clients', quick TBM 'All TBMs' and the full
\* branch and month option sets selected, the quick view is the whole cleaned
\* table.
C5_QuickViewAllIsFullTable ==
    ( /\ "quick_view" \in stages
      /\ selected_quick_client = AllClients /\ selected_quick_tbm = AllTBMs
      /\ selected_branch = branch_options /\ selected_month = Months ) =>
        filtered_df_quick = df.rows

\* C6: an empty Branch or Month selection leaves both views without rows, and
\* an empty dashboard Client or TBM selection leaves the dashboard view
\* without rows (in every run that gets to build the view).
C6_EmptySelectionGivesNoRows ==
    /\ ("dashboard_view" \in stages /\
           (selected_branch = {} \/ selected_month = {} \/
            selected_client = {} \/ selected_tbm = {}))
          => Len(filtered_df_dashboard) = 0
    /\ ("quick_view" \in stages /\ (selected_branch = {} \/ selected_month = {}))
          => Len(filtered_df_quick) = 0

\* A run over a table with rows in the selected branches where the month
\* selection is empty and both views were built.
C6_Witness ==
    /\ "quick_view" \in stages
    /\ selected_month = {}
    /\ selected_branch # {} /\ selected_client # {} /\ selected_tbm # {}
    /\ Len(df_branch_filtered) > 0
    /\ Len(filtered_df_dashboard) = 0 /\ Len(filtered_df_quick) = 0

\* C7: the dashboard's Client and TBM option lists are the non-missing values
\* of the rows in the selected branches; the Branch options are the
\* non-missing BranchName values of the whole table and the Month options are
\* the twelve months.
C7_OptionsFromBranchFilteredRows ==
    /\ "branch_filter" \in stages => branch_options = unique(df.rows, "BranchName")
    /\ "client_filter" \in stages =>
          client_options = unique(df_branch_filtered, "CustomerName")
    /\ "tbm_filter" \in stages => tbm_options = unique(df_branch_filtered, "TBM")
    /\ Cardinality(Months) = 12

\* C8: whenever the quick view is empty, the run shows 'No data available...',
\* finishes without an exception and computes no aggregate; aggregates are
\* computed only over a quick view with rows.
C8_EmptyQuickViewShowsEmptyState ==
    /\ ("quick_view" \in stages /\ Len(filtered_df_quick) = 0) =>
          /\ halt = "done" /\ raised = ""
          /\ "No data available for the selected filters or quick view." \in messages
          /\ ~kpi.computed
    /\ kpi.computed => Len(filtered_df_quick) > 0

\* C9: a workbook is decoded at most once.  A step decodes only when it
\* supplies a file other than the current one that was never decoded before;
\* it decodes that file once and stores the result; every other step leaves
\* the store and the decode counts alone, and a run with a file reads the
\* table stored for it.
C9_DecodedAtMostOnce ==
    [][ /\ \A f \in Files : decodes'[f] <= 1
        /\ (decodes' # decodes) =>
              /\ xlsb_file' # None /\ xlsb_file' # xlsb_file
              /\ xlsb_file' \notin DOMAIN cache
              /\ decodes' = [decodes EXCEPT ![xlsb_file'] = 1]
        /\ \A f \in DOMAIN cache : f \in DOMAIN cache' /\ cache'[f] = cache[f]
        /\ (xlsb_file' = xlsb_file) => (decodes' = decodes /\ cache' = cache)
        /\ (xlsb_file' # None) =>
              (xlsb_file' \in DOMAIN cache' /\ decodes'[xlsb_file'] = 1)
      ]_vars

\* A run that returned to a workbook decoded earlier, after another one was
\* decoded in between, and on which the user then changed a filter.
C9_Witness ==
    /\ xlsb_file # None
    /\ decodes[xlsb_file] = 1
    /\ \E g \in Files : g # xlsb_file /\ decodes[g] = 1
    /\ "branch_filter" \in stages /\ selected_branch # branch_options

\* C10: two consecutive runs over the same file with the same Branch and Month
\* selections and the same quick selectors (so differing at most in the
\* dashboard's Client and TBM selections) show the same quick view and the
\* same outputs.
C10_QuickViewIgnoresDashboardSelection ==
    [][ ( /\ xlsb_file' = xlsb_file
          /\ selected_branch' = selected_branch
          /\ selected_month' = selected_month
          /\ selected_quick_client' = selected_quick_client
          /\ selected_quick_tbm' = selected_quick_tbm ) =>
        ( /\ filtered_df_quick' = filtered_df_quick
          /\ kpi' = kpi
          /\ latest_year' = latest_year
          /\ halt' = halt /\ raised' = raised /\ messages' = messages )
      ]_vars

\* A run that drew the KPIs while the dashboard's own Client and TBM
\* selections were changed away from their defaults.
C10_Witness ==
    /\ kpi.computed
    /\ client_options # {} /\ selected_client = {}
    /\ tbm_options # {} /\ selected_tbm # tbm_options
    /\ Len(filtered_df_dashboard) = 0
    /\ Len(filtered_df_quick) > 0
====
